---- MODULE Spec2Model ----
(***************************************************************************)
(* Model of the Roomiefy messaging service (messaging_service/app):        *)
(* the conversation / participant / message tables of db.py, the REST      *)
(* handlers of main.py and the per-room ConnectionManager with the         *)
(* WebSocket endpoint.                                                     *)
(*                                                                         *)
(* Handlers declared with "def" run on worker threads, so the statements   *)
(* of two of them interleave at database-statement granularity; handlers   *)
(* declared with "async def" run on the event loop and yield only at an    *)
(* await.  A commit is one atomic step.                                    *)
(***************************************************************************)
EXTENDS Integers, Sequences, FiniteSets, TLC

\* ------------------------------------------------------------------ bounds
MaxConvs == 2      \* rows of the conversations table
MaxMsgs  == 2      \* rows of the messages table
MaxErrors == 1     \* error events sent to one WebSocket
MaxPrior == 56     \* conversations stored before the first request

\* ------------------------------------------------------------------ inputs
Users    == {"A", "B", "C"}
Sessions == {"s1", "s2"}
Reqs     == {"r1", "r2"}   \* REST requests in flight at the same time
ConvIds  == 1..MaxConvs
Contents == {"hi"}
InitialMessages == {"", "hi"}
\* (currentUserId, participantId) of the create requests
CreatePairs == {<<"A", "B">>, <<"B", "A">>, <<"A", "C">>, <<"A", "A">>}
Statuses == {"sent", "delivered", "read"}

\* main.py CHAT_NAMES
CHAT_NAMES == << "Karla Rodriguez", "Jorge Mendez", "Diego Fernandez", "Sofia Castillo",
                 "Valeria Jimenez", "Andres Navarro", "Mariana Solano", "Luis Pineda",
                 "Camila Herrera", "Fernando Rojas", "Laura Chacon", "Daniel Salas",
                 "Gabriela Montoya", "Pablo Araya", "Natalia Cordero", "Ricardo Vargas",
                 "Alejandra Pacheco", "Sebastian Quesada", "Monica Zamora", "Javier Aguirre",
                 "Paola Segura", "Martin Esquivel", "Lucia Morales", "Cristian Barboza",
                 "Andrea Cespedes", "Felipe Marin", "Daniela Campos", "Marco Leiva" >>

VARIABLES
    conversations,       \* conversations table: row id |-> [name]
    participants,        \* conversation_participants table: set of <<conversation_id, user_id>>
    messages,            \* messages table: row id |-> [conversation_id, sender_id, content, status, is_read]
    active_connections,  \* ConnectionManager.active_connections: room_id |-> set of sessions
    ws,                  \* per WebSocket: the endpoint coroutine's position, its room, the client's end
                         \* (open, slow: the client does not read, closed)
    inbox,               \* per WebSocket: the JSON events sent to the client, in order
    task,                \* per REST request slot: <<>> or <<the suspended handler's locals>>
    bc,                  \* per caller: <<>> or <<the running ConnectionManager.broadcast call>>
    resp,                \* the last HTTP response produced (observation)
    lastBc               \* the last broadcast call that returned (observation)

vars == << conversations, participants, messages, active_connections, ws, inbox,
           task, bc, resp, lastBc >>

db == << conversations, participants, messages >>

Owners == Reqs \cup Sessions

\* ------------------------------------------------------------ ConnectionManager
Registered(room_id) ==
    IF room_id \in DOMAIN active_connections THEN active_connections[room_id] ELSE {}

\* ConnectionManager.connect: active_connections.setdefault(room_id, set()).add(websocket)
ConnAdd(conns, room_id, s) ==
    [r \in (DOMAIN conns) \cup {room_id} |->
        IF r = room_id
        THEN (IF r \in DOMAIN conns THEN conns[r] ELSE {}) \cup {s}
        ELSE conns[r]]

\* Variant of disconnect without the pop of the emptied room.
ConnRemoveKeep(conns, room_id, s) ==
    IF room_id \in DOMAIN conns /\ conns[room_id] # {} /\ s \in conns[room_id]
    THEN [conns EXCEPT ![room_id] = @ \ {s}]
    ELSE conns

\* ConnectionManager.disconnect
ConnRemove(conns, room_id, s) ==
    IF room_id \in DOMAIN conns /\ conns[room_id] # {} /\ s \in conns[room_id]
    THEN IF conns[room_id] \ {s} = {}
         THEN [r \in (DOMAIN conns) \ {room_id} |-> conns[r]]
         ELSE [conns EXCEPT ![room_id] = @ \ {s}]
    ELSE conns

\* ------------------------------------------------------------------ responses
\* resp is the HTTP response the step just taken produced, NoResp if it produced
\* none; lastBc is the broadcast call that returned in the step just taken.
NoResp == [op |-> "none", code |-> 0, n |-> 0]

\* n is the id or the count of the response body, 0 when it carries none.
Respond(op, code, n) == [op |-> op, code |-> code, n |-> n]

NoBc == [owner |-> "", room_id |-> 0, event |-> [id |-> 0], snapshot |-> {},
         ok |-> {}, failed |-> {}]

Init ==
    /\ conversations = << >>
    /\ participants = {}
    /\ messages = << >>
    /\ active_connections = << >>
    /\ ws = [s \in Sessions |-> [pc |-> "new", room_id |-> 0, client |-> "open"]]
    /\ inbox = [s \in Sessions |-> << >>]
    /\ task = [i \in Reqs |-> << >>]
    /\ bc = [o \in Owners |-> << >>]
    /\ resp = NoResp
    /\ lastBc = NoBc

Idle(i) == task[i] = << >> /\ bc[i] = << >>

\* A new request is served by the first free worker; which worker serves it has
\* no effect on the handler.
Free(i) == Idle(i) /\ (i = "r2" => ~Idle("r1"))

\* ------------------------------------------------------------------ tables
\* The row of a new Message: status and is_read take their column defaults.
NewMessage(conversation_id, sender_id, content) ==
    [conversation_id |-> conversation_id, sender_id |-> sender_id, content |-> content,
     status |-> "sent", is_read |-> FALSE]

ParticipantsOf(c) == {u \in Users : <<c, u>> \in participants}

\* requests suspended between their query and their commit that will add a row
PendingCreates == {i \in Reqs : task[i] # << >> /\ task[i][1].op = "create"}
PendingInitial == {i \in PendingCreates : task[i][1].initialMessage # ""}
\* the conversations of the users who send requests
OwnConvs == {c \in DOMAIN conversations : ParticipantsOf(c) # {}}
CanAddConversation == Cardinality(OwnConvs) + Cardinality(PendingCreates) < MaxConvs
CanAddMessage == Len(messages) + Cardinality(PendingInitial) < MaxMsgs

\* ------------------------------------------------------------ create_conversation
\* Variant of the query whose filter is user_count >= 1.
ExistingConvsAnyUser(currentUserId, participantId) ==
    {c \in DOMAIN conversations :
        Cardinality({u \in {currentUserId, participantId} : <<c, u>> \in participants}) >= 1}

\* The subquery counts, per conversation, the distinct user_ids among
\* (currentUserId, participantId); the join keeps the conversations whose count is 2.
ExistingConvs(currentUserId, participantId) ==
    {c \in DOMAIN conversations :
        Cardinality({u \in {currentUserId, participantId} : <<c, u>> \in participants}) = 2}

\* Variant of the index without the - 1.
AssignNameFromId(id) == CHAT_NAMES[(id % Len(CHAT_NAMES)) + 1]

\* name_index = (conv.id - 1) % len(CHAT_NAMES); CHAT_NAMES[name_index]
AssignName(id) == CHAT_NAMES[((id - 1) % Len(CHAT_NAMES)) + 1]

\* The query and, when a row is found, the return.  .first() has no ORDER BY: any
\* matching row may be the one returned.
CreateQuery(i, currentUserId, participantId, initialMessage) ==
    /\ Free(i)
    /\ IF ExistingConvs(currentUserId, participantId) # {}
       THEN /\ \E c \in ExistingConvs(currentUserId, participantId) :
                 resp' = Respond("create", 201, c)
            /\ UNCHANGED task
       ELSE /\ CanAddConversation
            /\ initialMessage # "" => CanAddMessage
            /\ task' = [task EXCEPT ![i] = << [op |-> "create",
                                               currentUserId |-> currentUserId,
                                               participantId |-> participantId,
                                               initialMessage |-> initialMessage] >>]
            /\ resp' = NoResp
    /\ lastBc' = NoBc
    /\ UNCHANGED << db, active_connections, ws, inbox, bc >>

\* Variant of the commit on a table without uq_conv_user.
CommitAccepts(currentUserId, participantId) == FALSE

\* Two participant rows with the same (conversation_id, user_id) violate
\* uq_conv_user: the flush of the commit raises IntegrityError.
CommitRaises(currentUserId, participantId) == participantId = currentUserId

\* flush, add_all, the optional initial message, the name, commit.  When the commit
\* raises, the handler rolls the transaction back and answers 500.
CreateInsert(i) ==
    /\ task[i] # << >> /\ task[i][1].op = "create"
    /\ LET t  == task[i][1]
           id == Len(conversations) + 1
       IN IF CommitRaises(t.currentUserId, t.participantId)
          THEN /\ resp' = Respond("create", 500, 0)
               /\ UNCHANGED db
          ELSE /\ conversations' = Append(conversations, [name |-> AssignName(id)])
               /\ participants' = participants \cup {<<id, t.participantId>>, <<id, t.currentUserId>>}
               /\ messages' = IF t.initialMessage # ""
                              THEN Append(messages, NewMessage(id, t.currentUserId, t.initialMessage))
                              ELSE messages
               /\ resp' = Respond("create", 201, id)
    /\ task' = [task EXCEPT ![i] = << >>]
    /\ lastBc' = NoBc
    /\ UNCHANGED << active_connections, ws, inbox, bc >>

\* ------------------------------------------------------------ update_message_status
\* msg.status = status: the new status is written whatever the old one; is_read is
\* not touched.
SetStatus(msgs, message_id, status) == [msgs EXCEPT ![message_id].status = status]

UpdateMessageStatus(message_id, status) ==
    /\ IF message_id \in DOMAIN messages
       THEN /\ messages' = SetStatus(messages, message_id, status)
            /\ resp' = Respond("status", 200, 0)
       ELSE /\ resp' = Respond("status", 404, 0)
            /\ UNCHANGED messages
    /\ lastBc' = NoBc
    /\ UNCHANGED << conversations, participants, active_connections, ws, inbox, task, bc >>

\* ------------------------------------------------------------ mark_conversation_read
\* Variant of the filter without is_read == False.
UnreadOrRead(msgs, conversation_id, user_id) ==
    {m \in DOMAIN msgs : /\ msgs[m].conversation_id = conversation_id
                         /\ msgs[m].sender_id # user_id}

\* The rows the bulk UPDATE selects.
Unread(msgs, conversation_id, user_id) ==
    {m \in DOMAIN msgs : /\ msgs[m].conversation_id = conversation_id
                         /\ msgs[m].sender_id # user_id
                         /\ msgs[m].is_read = FALSE}

\* Variant of the update that writes status 'delivered'.
ReadValuesDelivered(row) == [row EXCEPT !.is_read = TRUE, !.status = "delivered"]

\* .update({Message.is_read: True, Message.status: 'read'})
ReadValues(row) == [row EXCEPT !.is_read = TRUE, !.status = "read"]

MarkReadUpdate(msgs, conversation_id, user_id) ==
    [m \in DOMAIN msgs |->
        IF m \in Unread(msgs, conversation_id, user_id) THEN ReadValues(msgs[m]) ELSE msgs[m]]

\* anyio.from_thread.run may only be called from an AnyIO worker thread; called on
\* the event loop thread, where an "async def" handler runs, it raises RuntimeError
\* before the coroutine is scheduled.
FromThreadRunRaises(onEventLoop) == onEventLoop

\* "except Exception" around the whole body also catches the HTTPException the
\* handler itself raised (404, 403): every exception leaves as a 500.
ReadCaught(code) == 500

\* The handler runs on the event loop and awaits nothing before its last
\* statement: the rows it leaves and the response it gives are a function of the
\* tables and its arguments.
ReadOutcome(convs, parts, msgs, conversation_id, user_id) ==
    IF user_id = ""
    THEN [messages |-> msgs, resp |-> Respond("read", 400, 0)]
    ELSE IF conversation_id \notin DOMAIN convs
    THEN [messages |-> msgs, resp |-> Respond("read", ReadCaught(404), 0)]
    ELSE IF <<conversation_id, user_id>> \notin parts
    THEN [messages |-> msgs, resp |-> Respond("read", ReadCaught(403), 0)]
    ELSE LET result == Cardinality(Unread(msgs, conversation_id, user_id))
         IN [messages |-> MarkReadUpdate(msgs, conversation_id, user_id),
             resp |-> IF result > 0 /\ FromThreadRunRaises(TRUE)
                      THEN Respond("read", ReadCaught(500), 0)
                      ELSE Respond("read", 200, result)]

MarkConversationRead(conversation_id, user_id) ==
    /\ LET o == ReadOutcome(conversations, participants, messages, conversation_id, user_id)
       IN /\ messages' = o.messages
          /\ resp' = o.resp
    /\ lastBc' = NoBc
    /\ UNCHANGED << conversations, participants, active_connections, ws, inbox, task, bc >>

\* ------------------------------------------------------------ ConnectionManager.broadcast
\* list(self.active_connections.get(room_id, [])): the sessions of the room when the
\* coroutine starts; later registrations are not in the list.
Snapshot(room_id) == Registered(room_id)

\* waiting is the session whose send_json the loop is suspended in, "" if none.
StartedBc(o, room_id, event) ==
    [owner |-> o, room_id |-> room_id, event |-> event, snapshot |-> Snapshot(room_id),
     todo |-> Snapshot(room_id), ok |-> {}, failed |-> {}, waiting |-> ""]

\* ws.send_json raises once the client's end of the socket is closed.
SendFails(s) == ws[s].client = "closed"

\* await ws.send_json does not complete while the client does not read.
SendBlocks(s) == ws[s].client = "slow"

\* What the caller does when its broadcast call has returned: send_message returns
\* the stored message, the WebSocket endpoint goes back to receive_json.
Returned(o, b) ==
    /\ lastBc' = [owner |-> b.owner, room_id |-> b.room_id, event |-> b.event,
                  snapshot |-> b.snapshot, ok |-> b.ok, failed |-> b.failed]
    /\ IF o \in Reqs
       THEN /\ resp' = Respond("send", 200, task[o][1].id)
            /\ task' = [task EXCEPT ![o] = << >>]
            /\ UNCHANGED ws
       ELSE /\ ws' = [ws EXCEPT ![o].pc = "recv"]
            /\ resp' = NoResp
            /\ UNCHANGED task

\* Variant of the loop that stops at the first send that raises.
RemainingUntilFailure(b, s, sent) == IF sent THEN b.todo \ {s} ELSE {}

\* The sessions still to be tried after s was tried.  The except clause only
\* unregisters s: the loop goes on.
Remaining(b, s, sent) == b.todo \ {s}

\* One iteration of the loop: send to one session of the list (a set has no order
\* the code controls), unregister it if the send raises.  The loop awaits each
\* send: while the send to a session does not complete, the call stays at that
\* session and tries no other.
BroadcastSend(o) ==
    /\ bc[o] # << >>
    /\ LET b == bc[o][1] IN
       \E s \in b.todo :
          /\ b.waiting \in {"", s}
          /\ IF SendBlocks(s)
             THEN /\ b.waiting = ""
                  /\ bc' = [bc EXCEPT ![o] = << [b EXCEPT !.waiting = s] >>]
                  /\ resp' = NoResp /\ lastBc' = NoBc
                  /\ UNCHANGED << inbox, active_connections, task, ws >>
             ELSE LET sent == ~SendFails(s)
                      nb   == [b EXCEPT !.todo = Remaining(b, s, sent),
                                        !.ok = IF sent THEN @ \cup {s} ELSE @,
                                        !.failed = IF sent THEN @ ELSE @ \cup {s},
                                        !.waiting = ""]
                  IN /\ inbox' = IF sent THEN [inbox EXCEPT ![s] = Append(@, b.event)]
                                         ELSE inbox
                     /\ active_connections' = IF sent THEN active_connections
                                              ELSE ConnRemove(active_connections, b.room_id, s)
                     /\ IF nb.todo = {}
                        THEN /\ bc' = [bc EXCEPT ![o] = << >>]
                             /\ Returned(o, nb)
                        ELSE /\ bc' = [bc EXCEPT ![o] = << nb >>]
                             /\ resp' = NoResp /\ lastBc' = NoBc
                             /\ UNCHANGED << task, ws >>
    /\ UNCHANGED db

\* ------------------------------------------------------------ send_message
\* Variant of the participant query without the conversation_id filter.
IsParticipantAnyConv(conversation_id, sender_id) ==
    \E c \in DOMAIN conversations : <<c, sender_id>> \in participants

\* The row of conversation_participants the handler looks for.
IsParticipant(conversation_id, sender_id) == <<conversation_id, sender_id>> \in participants

\* The participant check, the insert and the commit.
SendMessage(i, conversation_id, sender_id, content) ==
    /\ Free(i)
    /\ IF ~IsParticipant(conversation_id, sender_id)
       THEN /\ resp' = Respond("send", 403, 0)
            /\ UNCHANGED << messages, task >>
       ELSE /\ CanAddMessage
            /\ messages' = Append(messages,
                   [NewMessage(conversation_id, sender_id, content) EXCEPT !.status = "sent"])
            /\ task' = [task EXCEPT ![i] = << [op |-> "send", conversation_id |-> conversation_id,
                                               sender_id |-> sender_id, content |-> content,
                                               id |-> Len(messages) + 1] >>]
            /\ resp' = NoResp
    /\ lastBc' = NoBc
    /\ UNCHANGED << conversations, participants, active_connections, ws, inbox, bc >>

\* payload of send_message
RestPayload(id) ==
    [id |-> id, sender_id |-> messages[id].sender_id, content |-> messages[id].content,
     status |-> messages[id].status]

\* anyio.from_thread.run(manager.broadcast, conversation_id, payload): the worker
\* thread hands the coroutine to the event loop and waits for it.
SendBroadcast(i) ==
    /\ task[i] # << >> /\ task[i][1].op = "send" /\ bc[i] = << >>
    /\ LET b == StartedBc(i, task[i][1].conversation_id, RestPayload(task[i][1].id)) IN
       IF b.todo = {}
       THEN /\ Returned(i, b)
            /\ UNCHANGED bc
       ELSE /\ bc' = [bc EXCEPT ![i] = << b >>]
            /\ resp' = NoResp /\ lastBc' = NoBc
            /\ UNCHANGED << task, ws >>
    /\ UNCHANGED << db, active_connections, inbox >>

\* ------------------------------------------------------------ websocket_endpoint
\* manager.connect: accept, then register on the room.
WsConnect(s, room_id) ==
    /\ ws[s].pc = "new" /\ ws[s].client = "open"
    /\ ws' = [ws EXCEPT ![s].pc = "recv", ![s].room_id = room_id]
    /\ active_connections' = ConnAdd(active_connections, room_id, s)
    /\ resp' = NoResp /\ lastBc' = NoBc
    /\ UNCHANGED << db, inbox, task, bc >>

\* Variant of the payload that carries the id after the row's.
WsPayloadNextId(id, sender_id, content, status) ==
    [id |-> id + 1, sender |-> sender_id, sender_id |-> sender_id, content |-> content,
     status |-> status]

\* payload of websocket_endpoint
WsPayload(id, sender_id, content, status) ==
    [id |-> id, sender |-> sender_id, sender_id |-> sender_id, content |-> content,
     status |-> status]

\* {"error": ...}, sent to the session whose event lacks content or sender_id
ErrorEvent == [error |-> "content and sender_id required"]

ErrorsIn(s) == Cardinality({k \in 1..Len(inbox[s]) : inbox[s][k] = ErrorEvent})

\* Variant of the check that looks at content only.
MalformedContent(content, sender_id) == content = ""

\* if not content or not sender_id
Malformed(content, sender_id) == content = "" \/ sender_id = ""

\* One turn of the receive loop; "" stands for a missing or empty field.
\* An event without content or sender_id is answered with an error event on the
\* same socket and the loop continues; if that send raises, the endpoint
\* unregisters the session and ends.  A well-formed event is persisted on the
\* room's id with the sender it names, then broadcast; nothing yields between the
\* commit and the start of the broadcast.
WsReceive(s, sender_id, content) ==
    /\ ws[s].pc = "recv" /\ bc[s] = << >>
    /\ IF Malformed(content, sender_id)
       THEN /\ ErrorsIn(s) < MaxErrors
            /\ ~SendBlocks(s)
            /\ IF SendFails(s)
               THEN /\ ws' = [ws EXCEPT ![s].pc = "done"]
                    /\ active_connections' = ConnRemove(active_connections, ws[s].room_id, s)
                    /\ UNCHANGED inbox
               ELSE /\ inbox' = [inbox EXCEPT ![s] = Append(@, ErrorEvent)]
                    /\ UNCHANGED << ws, active_connections >>
            /\ resp' = NoResp /\ lastBc' = NoBc
            /\ UNCHANGED << messages, task, bc >>
       ELSE /\ CanAddMessage
            /\ LET row == NewMessage(ws[s].room_id, sender_id, content)
                   b   == StartedBc(s, ws[s].room_id,
                                    WsPayload(Len(messages) + 1, sender_id, row.content,
                                              row.status))
               IN /\ messages' = Append(messages, row)
                  /\ IF b.todo = {}
                     THEN /\ Returned(s, b)
                          /\ UNCHANGED bc
                     ELSE /\ bc' = [bc EXCEPT ![s] = << b >>]
                          /\ ws' = [ws EXCEPT ![s].pc = "bcast"]
                          /\ resp' = NoResp /\ lastBc' = NoBc
                          /\ UNCHANGED task
            /\ UNCHANGED << active_connections, inbox >>
    /\ UNCHANGED << conversations, participants >>

\* The client closes its end.
ClientClose(s) ==
    /\ ws[s].pc \in {"recv", "bcast"} /\ ws[s].client = "open"
    /\ ws' = [ws EXCEPT ![s].client = "closed"]
    /\ resp' = NoResp /\ lastBc' = NoBc
    /\ UNCHANGED << db, active_connections, inbox, task, bc >>

\* The client stops reading its socket: the buffers fill and a send to it no
\* longer completes.
ClientStall(s) ==
    /\ ws[s].pc \in {"recv", "bcast"} /\ ws[s].client = "open"
    /\ ws' = [ws EXCEPT ![s].client = "slow"]
    /\ resp' = NoResp /\ lastBc' = NoBc
    /\ UNCHANGED << db, active_connections, inbox, task, bc >>

\* The client reads again.
ClientResume(s) ==
    /\ ws[s].client = "slow"
    /\ ws' = [ws EXCEPT ![s].client = "open"]
    /\ resp' = NoResp /\ lastBc' = NoBc
    /\ UNCHANGED << db, active_connections, inbox, task, bc >>

\* receive_json raises WebSocketDisconnect: manager.disconnect, the endpoint ends.
WsDisconnect(s) ==
    /\ ws[s].pc = "recv" /\ ws[s].client = "closed"
    /\ ws' = [ws EXCEPT ![s].pc = "done"]
    /\ active_connections' = ConnRemove(active_connections, ws[s].room_id, s)
    /\ resp' = NoResp /\ lastBc' = NoBc
    /\ UNCHANGED << db, inbox, task, bc >>

\* ------------------------------------------------------------------ specification
CreateStep ==
    \/ \E i \in Reqs, p \in CreatePairs, m \in InitialMessages : CreateQuery(i, p[1], p[2], m)
    \/ \E i \in Reqs : CreateInsert(i)

SendStep ==
    \/ \E i \in Reqs, c \in ConvIds, u \in Users, t \in Contents : SendMessage(i, c, u, t)
    \/ \E i \in Reqs : SendBroadcast(i)

ReadStep == \E c \in ConvIds, u \in Users \cup {""} : MarkConversationRead(c, u)

StatusStep == \E m \in 1..MaxMsgs, st \in Statuses : UpdateMessageStatus(m, st)

\* Sessions come and go, and running broadcast calls advance.
RegistryStep ==
    \/ \E s \in Sessions, r \in ConvIds : WsConnect(s, r)
    \/ \E s \in Sessions : ClientClose(s)
    \/ \E s \in Sessions : WsDisconnect(s)
    \/ \E o \in Owners : BroadcastSend(o)

\* Clients that stop reading, and read again.
StallStep ==
    \/ \E s \in Sessions : ClientStall(s)
    \/ \E s \in Sessions : ClientResume(s)

ReceiveStep ==
    \E s \in Sessions, u \in Users \cup {""}, t \in Contents \cup {""} : WsReceive(s, u, t)

SocketStep == RegistryStep \/ ReceiveStep

\* The whole service.
Next == CreateStep \/ SendStep \/ ReadStep \/ StatusStep \/ SocketStep \/ StallStep

Spec == Init /\ [][Next]_vars

\* The REST handlers alone, from the empty database: no WebSocket ever connects.
NextRest == CreateStep \/ SendStep \/ ReadStep \/ StatusStep

SpecRest == Init /\ [][NextRest]_vars

\* create_conversation alone, from the empty database: the only handler that
\* writes conversations and participants.
SpecCreate == Init /\ [][CreateStep]_vars

\* create_conversation on a database that already holds k conversations, each
\* created by create_conversation for a pair of other users.
PriorParticipants(k) ==
    UNION {{<<c, "x" \o ToString(c)>>, <<c, "y" \o ToString(c)>>} : c \in 1..k}

InitNaming ==
    /\ \E k \in 0..MaxPrior :
          /\ conversations = [c \in 1..k |-> [name |-> AssignName(c)]]
          /\ participants = PriorParticipants(k)
    /\ messages = << >>
    /\ active_connections = << >>
    /\ ws = [s \in Sessions |-> [pc |-> "new", room_id |-> 0, client |-> "open"]]
    /\ inbox = [s \in Sessions |-> << >>]
    /\ task = [i \in Reqs |-> << >>]
    /\ bc = [o \in Owners |-> << >>]
    /\ resp = NoResp
    /\ lastBc = NoBc

SpecNaming == InitNaming /\ [][CreateStep]_vars

\* The live channel: the database already holds conversation 1 between A and B,
\* created by create_conversation; REST sends and the WebSocket endpoint run.
InitLive ==
    /\ conversations = << [name |-> AssignName(1)] >>
    /\ participants = {<<1, "A">>, <<1, "B">>}
    /\ messages = << >>
    /\ active_connections = << >>
    /\ ws = [s \in Sessions |-> [pc |-> "new", room_id |-> 0, client |-> "open"]]
    /\ inbox = [s \in Sessions |-> << >>]
    /\ task = [i \in Reqs |-> << >>]
    /\ bc = [o \in Owners |-> << >>]
    /\ resp = NoResp
    /\ lastBc = NoBc

NextLive == SendStep \/ SocketStep

SpecLive == InitLive /\ [][NextLive]_vars

\* mark_conversation_read next to REST sends, with sessions registered on the
\* rooms: the clients send no event of their own.
NextReceipt == SendStep \/ ReadStep \/ RegistryStep

SpecReceipt == InitLive /\ [][NextReceipt]_vars

\* The life of the messages of conversation 1: REST sends, mark_conversation_read
\* and update_message_status, with no session registered.
NextMessages == SendStep \/ ReadStep \/ StatusStep

SpecMessages == InitLive /\ [][NextMessages]_vars

\* REST sends broadcast to sessions that connect, close and are evicted; the
\* clients send no event of their own.
NextRegistry == SendStep \/ RegistryStep

SpecRegistry == InitLive /\ [][NextRegistry]_vars

\* The WebSocket endpoint alone: every message is persisted and broadcast by the
\* handler of the session that sent it, in one step of the event loop.
SpecSocket == InitLive /\ [][SocketStep]_vars

\* create_conversation next to the WebSocket endpoint, from the empty database:
\* sessions connect to room ids that have, or do not have yet, a conversation.
NextRooms ==
    \/ CreateStep
    \/ \E s \in Sessions, r \in ConvIds : WsConnect(s, r)
    \/ ReceiveStep
    \/ \E o \in Owners : BroadcastSend(o)

SpecRooms == Init /\ [][NextRooms]_vars

\* Both ways of sending into conversation 1, with requests whose content is the
\* empty string.
SendEmptyStep == \E i \in Reqs, c \in ConvIds, u \in Users : SendMessage(i, c, u, "")

NextContent ==
    \/ SendStep
    \/ SendEmptyStep
    \/ \E s \in Sessions, r \in ConvIds : WsConnect(s, r)
    \/ ReceiveStep
    \/ \E o \in Owners : BroadcastSend(o)

SpecContent == InitLive /\ [][NextContent]_vars

\* REST sends broadcast to sessions some of which stop reading.  The event loop
\* runs every coroutine that is ready and a worker thread goes on to its next
\* statement: a broadcast call that can take a step takes it.
NextStall == SendStep \/ RegistryStep \/ StallStep

Fairness ==
    /\ \A o \in Owners : WF_vars(BroadcastSend(o))
    /\ \A i \in Reqs : WF_vars(SendBroadcast(i))

SpecStall == InitLive /\ [][NextStall]_vars /\ Fairness

\* =================================================================== properties
\* The conversations whose participant set is exactly {a, b}.
ConvsOfPair(a, b) == {c \in DOMAIN conversations : ParticipantsOf(c) = {a, b}}

\* C1: for every pair of distinct users, however the create requests for the pair
\* interleave, no more than one conversation has exactly that pair as participants.
C1_OneConversationPerPair ==
    \A a \in Users, b \in Users : a # b => Cardinality(ConvsOfPair(a, b)) <= 1

\* C2: when a conversation of exactly {A, B} exists, a create request for (A, B) or
\* (B, A), with or without an initial message, answers with the id of such a
\* conversation and leaves conversations, participants and messages as they were; no
\* insert is left pending.
C2_FindReturnsExisting ==
    [][(resp'.op = "create" \/ task' # task) =>
       \A i \in Reqs, p \in CreatePairs, m \in InitialMessages :
          (p[1] # p[2] /\ CreateQuery(i, p[1], p[2], m) /\ ConvsOfPair(p[1], p[2]) # {})
          => /\ resp'.op = "create" /\ resp'.code = 201
             /\ resp'.n \in ConvsOfPair(p[1], p[2])
             /\ UNCHANGED << conversations, participants, messages, task >>]_vars

\* C2 witness: with two conversations stored, a create request was answered with
\* the older one.
C2_Witness ==
    /\ resp.op = "create" /\ resp.code = 201
    /\ Len(conversations) = 2 /\ resp.n = 1
    /\ ParticipantsOf(1) # ParticipantsOf(2)

\* C3: every stored message has is_read true exactly when its status is read.
C3_ReadFlagIffStatusRead ==
    \A m \in DOMAIN messages : messages[m].is_read <=> (messages[m].status = "read")

\* sent < delivered < read
Rank(status) == CASE status = "sent" -> 1 [] status = "delivered" -> 2 [] status = "read" -> 3
                  [] OTHER -> 0

NoRegress == \A m \in DOMAIN messages : Rank(messages'[m].status) >= Rank(messages[m].status)

\* C4 as stated: no step ever moves a message's status backwards in the order sent,
\* delivered, read.
C4_StatusNeverRegresses == [][NoRegress]_vars

\* C4 amended: every step other than update_message_status (create, send,
\* mark-read) leaves each message's status where it was or further on.
C4_NoRegressExceptSetStatus == [][resp'.op # "status" => NoRegress]_vars

\* C4 witness: mark-read has just run and a message it marked is at read.
C4_Witness ==
    /\ resp.op = "read" /\ resp.code = 500
    /\ \E m \in DOMAIN messages : messages[m].is_read /\ messages[m].status = "read"

\* C5: a send whose sender is not a participant of the conversation is answered 403
\* and changes nothing: no row, no broadcast call, no event to any session.
C5_ForbiddenSendChangesNothing ==
    [][(resp'.op = "send" \/ task' # task) =>
       \A i \in Reqs, c \in ConvIds, u \in Users, t \in Contents :
          (<<c, u>> \notin participants /\ SendMessage(i, c, u, t))
          => /\ resp' = Respond("send", 403, 0)
             /\ UNCHANGED << conversations, participants, messages, active_connections,
                             inbox, task, bc >>]_vars

\* C5 witness: a send was refused while a session was registered on a room.
C5_Witness ==
    /\ resp = Respond("send", 403, 0)
    /\ Registered(1) # {}
    /\ messages # << >>

\* The rows mark-read is to change, and the table it is to leave.
ToRead(c, u) ==
    {m \in DOMAIN messages : messages[m].conversation_id = c /\ messages[m].sender_id # u
                             /\ ~messages[m].is_read}

AfterRead(c, u) ==
    [m \in DOMAIN messages |->
        IF m \in ToRead(c, u)
        THEN [messages[m] EXCEPT !.status = "read", !.is_read = TRUE]
        ELSE messages[m]]

ValidRead(c, u) == c \in DOMAIN conversations /\ <<c, u>> \in participants

\* C6: mark-read by a participant changes exactly the unread messages of the
\* conversation sent by others, to status read and is_read true, and returns their
\* number.
C6_MarkReadChangesAndCounts ==
    [][resp'.op = "read" =>
       \A c \in ConvIds, u \in Users :
          (ValidRead(c, u) /\ MarkConversationRead(c, u))
          => /\ messages' = AfterRead(c, u)
             /\ resp' = Respond("read", 200, Cardinality(ToRead(c, u)))]_vars

\* C7: a mark-read issued right after a mark-read of the same conversation by the
\* same participant returns 0 and changes no message.
C7_SecondMarkReadIsNoOp ==
    [][resp'.op = "read" =>
       \A c \in ConvIds, u \in Users :
          (ValidRead(c, u) /\ MarkConversationRead(c, u))
          => LET second == ReadOutcome(conversations', participants', messages', c, u)
             IN /\ second.resp = Respond("read", 200, 0)
                /\ second.messages = messages']_vars

\* C7 witness: a first mark-read has just marked a message.
C7_Witness ==
    /\ resp.op = "read"
    /\ \E m \in DOMAIN messages : messages[m].is_read
    /\ \E m \in DOMAIN messages : ~messages[m].is_read

\* The read-receipt event of mark_conversation_read.
ReadReceipt(c, u, n) ==
    [type |-> "messages_read", conversation_id |-> c, user_id |-> u, count |-> n]

\* C8: a mark-read that changes n > 0 messages hands the event {messages_read, c, u,
\* n} to the broadcaster for the sessions of room c, and one that changes nothing
\* hands it no event.
C8_ReceiptIffChanged ==
    [][resp'.op = "read" =>
       \A c \in ConvIds, u \in Users :
          (ValidRead(c, u) /\ Registered(c) # {} /\ MarkConversationRead(c, u))
          => LET n == Cardinality(ToRead(c, u))
             IN (n > 0) <=> (\/ lastBc'.event = ReadReceipt(c, u, n)
                             \/ \E o \in Owners : /\ bc'[o] # << >>
                                                  /\ bc'[o][1].event = ReadReceipt(c, u, n))]_vars

\* C9: mark-read of a conversation that does not exist is answered 404, mark-read
\* by a user who is not a participant is answered 403, and neither changes a message.
C9_ReadErrorsKeepTheirKind ==
    [][resp'.op = "read" =>
       \A c \in ConvIds, u \in Users :
          (~ValidRead(c, u) /\ MarkConversationRead(c, u))
          => /\ resp'.code = IF c \notin DOMAIN conversations THEN 404 ELSE 403
             /\ messages' = messages]_vars

Received(s, event) == \E k \in 1..Len(inbox[s]) : inbox[s][k] = event

\* C10: when a broadcast call returns, every session that was registered on the
\* room when it was called has been tried; the event is in the inbox of exactly
\* those whose send succeeded, and of no session on another room; every session
\* whose send failed is off the room's set.
C10_BroadcastDelivery ==
    lastBc.owner # "" =>
        /\ lastBc.ok \cup lastBc.failed = lastBc.snapshot
        /\ lastBc.ok \cap lastBc.failed = {}
        /\ \A s \in Sessions :
              /\ Received(s, lastBc.event) <=> s \in lastBc.ok
              /\ ws[s].room_id # lastBc.room_id => ~Received(s, lastBc.event)
        /\ \A s \in lastBc.failed : s \notin Registered(lastBc.room_id)

\* C10 witness: a broadcast returned after one send failed and another succeeded.
C10_Witness == lastBc.owner # "" /\ lastBc.ok # {} /\ lastBc.failed # {}

\* The messages stored on conversation c, in a messages table.
MessagesOf(msgs, c) == {m \in DOMAIN msgs : msgs[m].conversation_id = c}

\* C11: a conversation just created for (A, B) has exactly the participants A and
\* B; with a non-empty initial message it has exactly one message, sent by A with
\* that content, status sent and is_read false; without one it has no message.
C11_NewConversationContents ==
    [][resp'.op = "create" =>
       \A i \in Reqs :
          (/\ task[i] # << >> /\ task[i][1].op = "create"
           /\ task[i][1].currentUserId # task[i][1].participantId
           /\ CreateInsert(i))
          => LET t  == task[i][1]
                 id == Len(conversations')
             IN /\ resp' = Respond("create", 201, id)
                /\ {u \in Users : <<id, u>> \in participants'}
                      = {t.currentUserId, t.participantId}
                /\ IF t.initialMessage # ""
                   THEN /\ Cardinality(MessagesOf(messages', id)) = 1
                        /\ \A m \in MessagesOf(messages', id) :
                              messages'[m] = [conversation_id |-> id,
                                              sender_id |-> t.currentUserId,
                                              content |-> t.initialMessage,
                                              status |-> "sent", is_read |-> FALSE]
                   ELSE MessagesOf(messages', id) = {}]_vars

\* C12: a create request whose two users are the same is answered with a
\* validation error (400 or 422) and changes no table.
C12_SelfPairRejected ==
    [][resp'.op = "create" =>
       \A i \in Reqs :
          (/\ task[i] # << >> /\ task[i][1].op = "create"
           /\ task[i][1].currentUserId = task[i][1].participantId
           /\ CreateInsert(i))
          => /\ resp'.code \in {400, 422}
             /\ UNCHANGED << conversations, participants, messages >>]_vars

\* C13: no stored conversation has fewer (or more) than its two participants, and
\* a create request that fails leaves the three tables as they were.
C13_CreationIsAllOrNothing ==
    [][/\ \A c \in DOMAIN conversations' :
             Cardinality({u \in Users : <<c, u>> \in participants'}) = 2
       /\ (resp'.op = "create" /\ resp'.code # 201)
             => UNCHANGED << conversations, participants, messages >>]_vars

\* C13 witness: a create request failed at its commit while a conversation and a
\* message were stored.
C13_Witness ==
    /\ resp = Respond("create", 500, 0)
    /\ Len(conversations) >= 1 /\ Len(messages) >= 1

\* C14: no stored message has empty content.
C14_NoEmptyContent == \A m \in DOMAIN messages : messages[m].content # ""

\* C15: an event that lacks content or sender_id, received from a client that is
\* still connected, puts one error event in the inbox of that session and of no
\* other; no message is stored, no broadcast starts, the session stays on its
\* room's set and its handler is back at receive_json.
C15_MalformedEventAnsweredInline ==
    [][(messages' # messages \/ (inbox' # inbox /\ bc' = bc)) =>
       \A s \in Sessions, u \in Users \cup {""}, t \in Contents \cup {""} :
          (/\ (t = "" \/ u = "")
           /\ ws[s].client = "open"
           /\ WsReceive(s, u, t))
          => /\ inbox' = [inbox EXCEPT ![s] = Append(@, ErrorEvent)]
             /\ UNCHANGED << messages, active_connections, bc, ws >>
             /\ ws[s].room_id \in DOMAIN active_connections'
             /\ s \in active_connections'[ws[s].room_id]
             /\ ws'[s].pc = "recv" /\ bc'[s] = << >>]_vars

\* C15 witness: a session was sent an error event and then the event of a message
\* it sent itself afterwards.
C15_Witness ==
    \E s \in Sessions :
       /\ Len(inbox[s]) >= 2
       /\ inbox[s][1] = ErrorEvent
       /\ inbox[s][2] # ErrorEvent
       /\ lastBc.owner = s

C17_MessagesBelong ==
    \A m \in DOMAIN messages :
       /\ messages[m].conversation_id \in DOMAIN conversations
       /\ <<messages[m].conversation_id, messages[m].sender_id>> \in participants

\* The events of stored messages (an error event has no id).
IsMessageEvent(e) == "id" \in DOMAIN e

\* C18: the WebSocket handlers persist and call broadcast in one step, so message
\* ids follow the order of the broadcast calls: every session receives the
\* message events of its room in increasing id.
C18_RoomOrder ==
    \A s \in Sessions : \A j \in 1..Len(inbox[s]), k \in 1..Len(inbox[s]) :
       (j < k /\ IsMessageEvent(inbox[s][j]) /\ IsMessageEvent(inbox[s][k]))
          => inbox[s][j].id < inbox[s][k].id

\* Session s is still to be tried by the broadcast call of o.
Pending(o, s) == bc[o] # << >> /\ s \in bc[o][1].todo

\* C19: a session on the list of a broadcast call whose own client reads is
\* eventually tried by the call, whatever happens to the sends to the others.
C19_SlowSessionDelaysNoOne ==
    \A o \in Owners, s \in Sessions :
       (Pending(o, s) /\ ws[s].client = "open")
          ~> (~Pending(o, s) \/ ws[s].client # "open")

\* C20: every message event in an inbox is the event of a stored message with
\* that id, sender and content; a REST sender whose broadcast returned is answered
\* 200 with the message whatever sends failed; no step removes or alters a stored
\* message.
C20_PersistedBeforeFanOut ==
    [][/\ \A s \in Sessions : \A k \in 1..Len(inbox'[s]) :
             IsMessageEvent(inbox'[s][k]) =>
                /\ inbox'[s][k].id \in DOMAIN messages'
                /\ messages'[inbox'[s][k].id].sender_id = inbox'[s][k].sender_id
                /\ messages'[inbox'[s][k].id].content = inbox'[s][k].content
       /\ lastBc'.owner \in Reqs => resp' = Respond("send", 200, lastBc'.event.id)
       /\ \A m \in DOMAIN messages :
             m \in DOMAIN messages' /\ messages'[m] = messages[m]]_vars

\* C20 witness: the broadcast of a REST send returned after a send to a session
\* failed, and the sender was answered 200.
C20_Witness ==
    /\ lastBc.owner \in Reqs /\ lastBc.failed # {}
    /\ resp.op = "send" /\ resp.code = 200
    /\ resp.n \in DOMAIN messages

\* C21: the registry maps no room id to an empty set: a room has an entry exactly
\* when a session is registered on it, whatever sessions connected, disconnected
\* (registered or already evicted) or were evicted by a failed send.
C21_NoEmptyRoom ==
    /\ \A r \in DOMAIN active_connections : active_connections[r] # {}
    /\ \A r \in ConvIds :
          (r \in DOMAIN active_connections) <=> (\E s \in Sessions : s \in Registered(r))

\* C21 witness: a broadcast whose sends failed has emptied its room, whose entry
\* is gone, while another room keeps its session.
C21_Witness ==
    /\ lastBc.owner # "" /\ lastBc.failed # {}
    /\ lastBc.room_id \notin DOMAIN active_connections
    /\ DOMAIN active_connections # {}
====
